---- MODULE Spec2Model ----
(***************************************************************************)
(* A model of prpy's VectorFieldPlanner (FollowVectorField and the planning *)
(* methods built on it, src/src/prpy/planning/vectorfield.py) and of the   *)
(* Robot wrapper that plans, post-processes and executes trajectories,     *)
(* synchronously or deferred (src/src/prpy/base/robot.py).  Spec is the    *)
(* planner, SpecRobot the wrapper.                                         *)
(*                                                                         *)
(* Time and joint values are integers: one time unit is the spacing of the *)
(* DOF-resolution samples, one joint unit is the DOF resolution.  The ODE  *)
(* solver is the environment: it probes the vector field at candidate      *)
(* configurations (fn_wrapper), accepts steps of its own choice            *)
(* (fn_callback), and stops when the callback asks it to, when it reaches  *)
(* integration_timelimit, or when it fails.  The vector field, the         *)
(* termination predicate and the wall clock are inputs drawn with \E.      *)
(***************************************************************************)
EXTENDS Integers, Sequences, FiniteSets, TLC

VARIABLES
    call,       \* the planning call being made: method, arguments, robot
    pc,         \* "call":  a planning method has been entered
                \* "rejected": it raised a ValueError on its arguments
                \* "solve": inside integrator.integrate, between callbacks
                \* "check": inside fn_callback's loop over the checks
                \* "post":  integrate() has returned
                \* "done":  FollowVectorField has returned or raised
    path,       \* the raw path: sequence of waypoints [dt, q]
    checks,     \* the (t, q) samples fn_callback still has to check
    nonlocals,  \* [exception, t_cache, t_check]
    robot,      \* the robot's live active-DOF configuration
    clock,      \* wall-clock time elapsed since time_start, capped at timelimit
    cand,       \* the solver's current trial point [t, q] (t = None: no trial)
    solver_ok,  \* FALSE once the solver stopped on a failure of its own
    result,     \* what the call gave its caller
    mon,        \* record of the latest fn_status_callback evaluation
    req,        \* the call made on the Robot: entry point and arguments
    stage,      \* how far that call has got (see the wrapper's actions)
    planner,    \* the planning method's result: "none", "pending",
                \* "resolved" (a trajectory) or "failed" (an exception)
    future,     \* the future handed to the caller of a deferred call
    outcome,    \* what the call itself returned or raised
    events,     \* the stages begun and completed so far, in order
    time_now,   \* time.time() since ExecuteTrajectory started waiting
    controllers_done, \* all(controller.IsDone() for the active controllers)
    snap_call,  \* the call made on the SnapPlanner: method, arguments, robot
    snap_pc,    \* "call": a planning method has been entered; "_Snap":
                \* it has called _Snap; "end": it has returned or raised
    snap_goal,  \* the goal configuration that _Snap is given
    snap_result, \* what the SnapPlanner gave its caller
    limits_call,   \* the call of ViolatesVelocityLimits: its trajectory
    limits_result  \* what ViolatesVelocityLimits returned

planner_vars ==
    <<call, pc, path, checks, nonlocals, robot, clock, cand, solver_ok,
      result, mon>>

wrapper_vars ==
    <<req, stage, planner, future, outcome, events, time_now,
      controllers_done>>

snap_vars == <<snap_call, snap_pc, snap_goal, snap_result>>

limits_vars == <<limits_call, limits_result>>

vars == <<planner_vars, wrapper_vars, snap_vars, limits_vars>>

----------------------------------------------------------------------------
(* Bounds of the model *)

\* integration_timelimit, in sample units
integration_timelimit == 3
\* wall-clock timelimit, in clock ticks
timelimit == 2
\* the largest step the adaptive solver accepts, in sample units
MaxStep == 2

\* the solver's first step (set_integrator(first_step=0.1)): one sample unit
first_step == 1

\* the default of FollowVectorField's integration_timelimit parameter
DefaultIntegrationTimeLimit == 10

----------------------------------------------------------------------------
(* The robot and its environment *)

None == -1

DOFs == {1, 2}

\* robot.GetActiveDOFLimits() of the robot the call is made on
q_limit_min == call.q_limit_min
q_limit_max == call.q_limit_max

\* configurations the call may start from (inside the position limits)
StartConfigs == {<<0, 0>>, <<1, 0>>}

\* joint velocities the vector field / solver slope may take, per time unit
Velocities == {<<1, 0>>, <<0, 1>>, <<1, 1>>, <<1, -1>>, <<-1, 0>>}

\* configurations at which env.CheckCollision(robot) reports a collision
EnvObstacles == {<<1, 1>>, <<3, 0>>, <<0, 2>>}
\* configurations at which robot.CheckSelfCollision() reports a collision
SelfObstacles == {<<2, 1>>, <<0, 2>>, <<3, 0>>}

CheckCollision(q) == q \in call.env_obstacles
CheckSelfCollision(q) == q \in call.self_obstacles

----------------------------------------------------------------------------
(* The planning calls *)

\* A direct FollowVectorField call on the standard robot (two DOFs with
\* limits [0, 2]) with an arbitrary vector field and an arbitrary predicate.
\* The other calls are variations of this record.
BaseCall ==
    [method |-> "FollowVectorField", q_start |-> <<0, 0>>,
     q_limit_min |-> <<0, 0>>, q_limit_max |-> <<2, 2>>,
     env_obstacles |-> EnvObstacles, self_obstacles |-> SelfObstacles,
     integration_timelimit |-> integration_timelimit,
     timelimit |-> timelimit, dt_multiplier |-> 1,
     field |-> Velocities, predicate |-> "any",
     goal_pose |-> <<0, 0>>, pose_error_tol |-> 0,
     direction |-> <<0, 0>>, distance |-> 0, max_distance |-> None,
     position_tolerance |-> 0, angular_tolerance |-> 0]

FollowVectorFieldCalls ==
    {[BaseCall EXCEPT !.q_start = s, !.dt_multiplier = m] :
        s \in StartConfigs, m \in {1, 2}}

\* The example scenario: one moving DOF with limits [0, 10] (the second DOF
\* is locked at 0), no obstacle in its range, a constant field of velocity
\* 1, a predicate that returns CACHE_AND_TERMINATE once the configuration
\* is >= 5 (kept in the distance field), and the default time limits.
ExampleCall ==
    [BaseCall EXCEPT !.q_limit_max = <<10, 0>>,
                     !.env_obstacles = {}, !.self_obstacles = {},
                     !.integration_timelimit = DefaultIntegrationTimeLimit,
                     !.field = {<<1, 0>>},
                     !.predicate = "AtLeast", !.distance = 5]

\* the timelimit arguments that the callers of PlanToEndEffectorPose and
\* PlanToEndEffectorOffset pass
CallerTimeLimits == {1, integration_timelimit}

\* The call c made with the timelimit argument tl.  Both planning methods
\* pass their timelimit on as FollowVectorField's fourth positional
\* argument, which is its integration_timelimit parameter; its timelimit
\* parameter keeps its default, the wall-clock limit of the model.
WithTimeLimit(c, tl) ==
    [c EXCEPT !.timelimit = tl, !.integration_timelimit = tl]

\* PlanToEndEffectorPose(robot, goal_pose, timelimit, pose_error_tol): the
\* goal pose is the pose of configuration (2, 0)
PlanToEndEffectorPoseCalls ==
    {WithTimeLimit(
        [BaseCall EXCEPT !.method = "PlanToEndEffectorPose", !.q_start = s,
                         !.predicate = "CloseEnough",
                         !.goal_pose = <<2, 0>>, !.pose_error_tol = 1], tl) :
        s \in StartConfigs, tl \in CallerTimeLimits}

\* PlanToEndEffectorOffset(robot, direction, distance, max_distance,
\* timelimit, position_tolerance, angular_tolerance), valid and invalid
PlanToEndEffectorOffsetCalls ==
    {WithTimeLimit(
        [BaseCall EXCEPT !.method = "PlanToEndEffectorOffset",
                         !.predicate = "TerminateMove",
                         !.direction = d, !.distance = dist,
                         !.max_distance = m, !.position_tolerance = pt,
                         !.angular_tolerance = at], tl) :
        d \in {<<0, 0>>, <<1, 0>>, <<0, 2>>}, dist \in {-1, 1, 2},
        m \in {None, 1, 2}, pt \in {-1, 0, 1}, at \in {-1, 0},
        tl \in CallerTimeLimits}

Calls ==
    FollowVectorFieldCalls \cup {ExampleCall}
        \cup PlanToEndEffectorPoseCalls \cup PlanToEndEffectorOffsetCalls

----------------------------------------------------------------------------
(* Status protocol *)

TERMINATE == "TERMINATE"
CACHE_AND_CONTINUE == "CACHE_AND_CONTINUE"
CONTINUE == "CONTINUE"
CACHE_AND_TERMINATE == "CACHE_AND_TERMINATE"

Status == {TERMINATE, CACHE_AND_CONTINUE, CONTINUE, CACHE_AND_TERMINATE}

DoesTerminate(status) == status \in {TERMINATE, CACHE_AND_TERMINATE}

\* DoesCache that forgets CACHE_AND_TERMINATE
DoesCache_continue_only(status) == status \in {CACHE_AND_CONTINUE}


DoesCache(status) == status \in {CACHE_AND_CONTINUE, CACHE_AND_TERMINATE}

\* what one call of fn_terminate can do: return a Status or raise a
\* PlanningError (as TerminateMove does)
PredicateOutcomes == Status \cup {"raise"}

Abs(x) == IF x < 0 THEN -x ELSE x

\* numpy.linalg.norm of an axis-aligned vector
Norm(v) == Abs(v[1]) + Abs(v[2])

\* The end effector of the modelled robot is at position q, with a fixed
\* orientation: util.GeodesicError(Tstart, Tnow) is the translation from the
\* start pose followed by a zero angle.
GeodesicError(q_from, q_to) == <<q_to[1] - q_from[1], q_to[2] - q_from[2], 0>>

\* util.GeodesicDistance between the poses of two configurations
GeodesicDistance(q_a, q_b) == Norm(<<q_b[1] - q_a[1], q_b[2] - q_a[2]>>)

\* CloseEnough of PlanToEndEffectorPose, with the robot at q
CloseEnough(q) ==
    IF GeodesicDistance(q, call.goal_pose) < call.pose_error_tol
    THEN TERMINATE
    ELSE CONTINUE

\* direction / numpy.linalg.norm(direction), for an axis-aligned direction
Normalized(v) == <<v[1] \div Norm(v), v[2] \div Norm(v)>>

\* TerminateMove without its max_distance branch
TerminateMove_no_max(q) ==
    LET direction == Normalized(call.direction)
        error == GeodesicError(call.q_start, q)
        distance_moved == error[1] * direction[1] + error[2] * direction[2]
        position_deviation ==
            Norm(<<error[1] - distance_moved * direction[1],
                   error[2] - distance_moved * direction[2]>>)
    IN  IF Abs(error[3]) > call.angular_tolerance THEN "raise"
        ELSE IF position_deviation > call.position_tolerance THEN "raise"
        ELSE IF call.max_distance = None
        THEN IF distance_moved > call.distance THEN CACHE_AND_TERMINATE
             ELSE CONTINUE
        ELSE IF distance_moved >= call.distance THEN CACHE_AND_CONTINUE
        ELSE CONTINUE

\* TerminateMove of PlanToEndEffectorOffset, with the robot at q
TerminateMove(q) ==
    LET direction == Normalized(call.direction)
        error == GeodesicError(call.q_start, q)
        distance_moved == error[1] * direction[1] + error[2] * direction[2]
        position_deviation ==
            Norm(<<error[1] - distance_moved * direction[1],
                   error[2] - distance_moved * direction[2]>>)
    IN  IF Abs(error[3]) > call.angular_tolerance THEN "raise"
        ELSE IF position_deviation > call.position_tolerance THEN "raise"
        ELSE IF call.max_distance = None
        THEN IF distance_moved > call.distance THEN CACHE_AND_TERMINATE
             ELSE CONTINUE
        ELSE IF distance_moved > call.max_distance THEN TERMINATE
        ELSE IF distance_moved >= call.distance THEN CACHE_AND_CONTINUE
        ELSE CONTINUE

\* what fn_terminate() can do in this call with the robot at q
PredicateOutcomesAt(q) ==
    CASE call.predicate = "any" -> PredicateOutcomes
      [] call.predicate = "CloseEnough" -> {CloseEnough(q)}
      [] call.predicate = "TerminateMove" -> {TerminateMove(q)}
      [] call.predicate = "AtLeast" ->
            {IF q[1] >= call.distance THEN CACHE_AND_TERMINATE ELSE CONTINUE}

----------------------------------------------------------------------------
(* Exceptions *)

Exc(type) == [type |-> type, dof_index |-> 0, dof_value |-> 0, dof_limit |-> 0]

NoException == Exc("None")
TerminationError == Exc("TerminationError")
TimeLimitError == Exc("TimeLimitError")
CollisionPlanningError == Exc("CollisionPlanningError")
SelfCollisionPlanningError == Exc("SelfCollisionPlanningError")
ConstraintViolationPlanningError == Exc("ConstraintViolationPlanningError")
PlanningError == Exc("PlanningError")
ValueError == Exc("ValueError")

JointLimitError(index, value, limit) ==
    [type |-> "JointLimitError", dof_index |-> index, dof_value |-> value,
     dof_limit |-> limit]

----------------------------------------------------------------------------
(* The raw path: an OpenRAVE trajectory with a delta-time group *)

RECURSIVE AccumTime(_, _)
\* cumulative time of waypoint i (1-based) of p
AccumTime(p, i) == IF i = 0 THEN 0 ELSE AccumTime(p, i - 1) + p[i].dt

GetDuration(p) == AccumTime(p, Len(p))

\* lower_bound: the least 1-based index whose cumulative time is >= time
LowerBound(p, time) ==
    CHOOSE i \in 1..Len(p) :
        /\ AccumTime(p, i) >= time
        /\ \A j \in 1..(i - 1) : AccumTime(p, j) < time

\* the number of waypoints in front of the index the trajectory returns
GetFirstWaypointIndexAfterTime(p, time) ==
    IF Len(p) = 0 THEN 0
    ELSE IF time < AccumTime(p, 1) THEN 0
    ELSE IF time >= AccumTime(p, Len(p)) THEN Len(p)
    ELSE LowerBound(p, time) - 1

\* waypoints [startindex, endindex) with 0-based indices
GetWaypoints(p, startindex, endindex) == SubSeq(p, startindex + 1, endindex)

\* linear interpolation of the joint values at time
Sample(p, time) ==
    IF time >= GetDuration(p) THEN p[Len(p)].q
    ELSE LET i == LowerBound(p, time) IN
         IF i = 1 THEN p[1].q
         ELSE LET a  == p[i - 1].q
                  b  == p[i].q
                  ta == AccumTime(p, i - 1)
              IN  << a[1] + ((time - ta) * (b[1] - a[1])) \div p[i].dt,
                     a[2] + ((time - ta) * (b[2] - a[2])) \div p[i].dt >>

\* the (t, q) samples that cover p at DOF resolution, in increasing time
GetCollisionCheckPts(p, include_start) ==
    LET first == IF include_start THEN 0 ELSE 1
        n     == GetDuration(p) - first + 1
    IN  [k \in 1..n |-> [t |-> first + k - 1, q |-> Sample(p, first + k - 1)]]

----------------------------------------------------------------------------
(* The constraint monitor: fn_status_callback *)

\* flags.nonzero()[0][0]: the first DOF, in index order, whose flag is set
FirstIndex(flags) ==
    CHOOSE i \in DOFs : flags[i] /\ \A j \in DOFs : flags[j] => i <= j

\* the position limit check with the upper limits left out
PositionLimitFault_lower_only(q) ==
    LET lower_position_violations == [i \in DOFs |-> q[i] < q_limit_min[i]]
        index == FirstIndex(lower_position_violations)
    IN  IF \E i \in DOFs : lower_position_violations[i]
        THEN JointLimitError(index, q[index], q_limit_min[index])
        ELSE NoException

\* the position limit check with the upper limits tested first
PositionLimitFault_upper_first(q) ==
    LET lower_position_violations == [i \in DOFs |-> q[i] < q_limit_min[i]]
        upper_position_violations == [i \in DOFs |-> q[i] > q_limit_max[i]]
        lo == FirstIndex(lower_position_violations)
        up == FirstIndex(upper_position_violations)
    IN  IF \E i \in DOFs : upper_position_violations[i]
        THEN JointLimitError(up, q[up], q_limit_max[up])
        ELSE IF \E i \in DOFs : lower_position_violations[i]
        THEN JointLimitError(lo, q[lo], q_limit_min[lo])
        ELSE NoException

\* the joint position limit check: all lower limits, then all upper limits
PositionLimitFault(q) ==
    LET lower_position_violations == [i \in DOFs |-> q[i] < q_limit_min[i]]
        upper_position_violations == [i \in DOFs |-> q[i] > q_limit_max[i]]
        lo == FirstIndex(lower_position_violations)
        up == FirstIndex(upper_position_violations)
    IN  IF \E i \in DOFs : lower_position_violations[i]
        THEN JointLimitError(lo, q[lo], q_limit_min[lo])
        ELSE IF \E i \in DOFs : upper_position_violations[i]
        THEN JointLimitError(up, q[up], q_limit_max[up])
        ELSE NoException

\* the cache updated on every status
CacheTime_always(status, t, t_cache) == t

\* the cache update skipped when the status also terminates
CacheTime_terminate_first(status, t, t_cache) ==
    IF DoesCache(status) /\ ~DoesTerminate(status) THEN t ELSE t_cache

\* the value of nonlocals['t_cache'] after the predicate returned status at t
CacheTime(status, t, t_cache) == IF DoesCache(status) THEN t ELSE t_cache

\* what the monitor did and found on a sample on which nothing has run yet
Unchecked(t_cache) ==
    [exception |-> NoException, committed |-> FALSE, env_checked |-> FALSE,
     self_checked |-> FALSE, pred_called |-> FALSE, status |-> "none",
     t_cache |-> t_cache]

\* The monitor's checks after its wall-clock check: position limits, the
\* commit of q to the robot, the two collision checks, the predicate.
CheckConstraints(t, q, pred, t_cache) ==
    LET r0 == Unchecked(t_cache) IN
    IF PositionLimitFault(q) # NoException
    THEN [r0 EXCEPT !.exception = PositionLimitFault(q)]
    ELSE LET r1 == [r0 EXCEPT !.committed = TRUE, !.env_checked = TRUE] IN
    IF CheckCollision(q)
    THEN [r1 EXCEPT !.exception = CollisionPlanningError]
    ELSE LET r2 == [r1 EXCEPT !.self_checked = TRUE] IN
    IF CheckSelfCollision(q)
    THEN [r2 EXCEPT !.exception = SelfCollisionPlanningError]
    ELSE LET r3 == [r2 EXCEPT !.pred_called = TRUE] IN
    IF pred = "raise"
    THEN [r3 EXCEPT !.exception = ConstraintViolationPlanningError]
    ELSE [r3 EXCEPT !.status = pred,
                    !.t_cache = CacheTime(pred, t, t_cache),
                    !.exception = IF DoesTerminate(pred) THEN TerminationError
                                  ELSE NoException]

\* the monitor testing the position limits before the wall clock
fn_status_callback_limits_first(t, q, elapsed, pred, t_cache) ==
    IF PositionLimitFault(q) = NoException /\ elapsed >= timelimit
    THEN [Unchecked(t_cache) EXCEPT !.exception = TimeLimitError]
    ELSE CheckConstraints(t, q, pred, t_cache)

\* One evaluation of the monitor on the sample (t, q).  elapsed is
\* time.time() - time_start, pred the outcome of fn_terminate() should it be
\* called, t_cache the current nonlocals['t_cache'].  The result tells which
\* exception the evaluation raised (NoException: it returned), whether q was
\* committed to the robot, which checks ran, and the new t_cache.
fn_status_callback(t, q, elapsed, pred, t_cache) ==
    IF elapsed >= timelimit
    THEN [Unchecked(t_cache) EXCEPT !.exception = TimeLimitError]
    ELSE CheckConstraints(t, q, pred, t_cache)

----------------------------------------------------------------------------
(* The solver callbacks *)

NoCand == [t |-> None, q |-> <<0, 0>>]

NoMon == [t |-> None, q |-> <<0, 0>>] @@ Unchecked(None)

NoTags == [CONSTRAINED |-> "none", SMOOTH |-> "none"]

NoResult == [kind |-> "none", traj |-> <<>>, error |-> NoException,
             logged |-> FALSE, tags |-> NoTags, cspec |-> {}]

\* the argument checks of PlanToEndEffectorOffset without the last one
OffsetArgumentError_no_angular(c) ==
    \/ c.distance < 0
    \/ Norm(c.direction) = 0
    \/ c.max_distance # None /\ c.max_distance < c.distance
    \/ c.position_tolerance < 0

\* whether PlanToEndEffectorOffset raises a ValueError on its arguments
OffsetArgumentError(c) ==
    \/ c.distance < 0
    \/ Norm(c.direction) = 0
    \/ c.max_distance # None /\ c.max_distance < c.distance
    \/ c.position_tolerance < 0
    \/ c.angular_tolerance < 0

\* no call is being made on the Robot wrapper
NoRequest ==
    [entry |-> "none", defer |-> FALSE, keys |-> {}, execute |-> TRUE,
     timeout |-> None, constrained |-> FALSE, tag_constrained |-> FALSE,
     smooth |-> FALSE, tag_smooth |-> FALSE]

NoFuture == [state |-> "none", value |-> "none", error |-> NoException]

NoOutcome == [kind |-> "none", value |-> "none", error |-> NoException]

WrapperIdle ==
    /\ req = NoRequest
    /\ stage = "idle"
    /\ planner = "none"
    /\ future = NoFuture
    /\ outcome = NoOutcome
    /\ events = <<>>
    /\ time_now = 0
    /\ controllers_done = FALSE

NoSnapCall ==
    [method |-> "none", current_dof_values |-> <<0, 0>>, goal |-> <<0, 0>>,
     ik_solutions |-> <<>>, snap_tolerance |-> 0]

NoSnapResult == [kind |-> "none", traj |-> <<>>, error |-> NoException]

\* the SnapPlanner is not running
SnapIdle ==
    /\ snap_call = NoSnapCall
    /\ snap_pc = "idle"
    /\ snap_goal = <<0, 0>>
    /\ snap_result = NoSnapResult

NoLimitsCall == [traj |-> <<>>, has_velocity_group |-> FALSE]

\* ViolatesVelocityLimits is not running
LimitsIdle ==
    /\ limits_call = NoLimitsCall
    /\ limits_result = "none"

Init ==
    /\ WrapperIdle
    /\ SnapIdle
    /\ LimitsIdle
    /\ call \in Calls
    /\ pc = IF call.method = "PlanToEndEffectorOffset" THEN "call" ELSE "solve"
    /\ path = <<>>
    /\ checks = <<>>
    /\ nonlocals = [exception |-> NoException, t_cache |-> None, t_check |-> 0]
    /\ robot = call.q_start
    /\ clock = 0
    /\ cand = [t |-> 0, q |-> robot]
    /\ solver_ok = TRUE
    /\ result = NoResult
    /\ mon = NoMon

\* PlanToEndEffectorOffset checks its arguments; it raises a ValueError or
\* goes on to FollowVectorField.
PlanToEndEffectorOffset ==
    /\ pc = "call"
    /\ IF OffsetArgumentError(call)
       THEN /\ pc' = "rejected"
            /\ result' = [NoResult EXCEPT !.kind = "raised",
                                          !.error = ValueError]
       ELSE /\ pc' = "solve"
            /\ UNCHANGED result
    /\ UNCHANGED <<wrapper_vars, snap_vars, limits_vars>>
    /\ UNCHANGED <<call, path, checks, nonlocals, robot, clock, cand,
                   solver_ok, mon>>

\* The solver evaluates the vector field at a trial point of the step it is
\* trying: fn_wrapper sets the robot to the trial configuration without any
\* limit check and returns fn_vectorfield().  The trial point is h time units
\* past the last accepted one, along a slope v the field returned; the
\* first step of the integration is first_step.
FnWrapper ==
    /\ pc = "solve"
    /\ Len(path) > 0
    /\ \E h \in 1..MaxStep, v \in call.field :
          LET t_acc == GetDuration(path)
              q_acc == path[Len(path)].q
          IN  /\ Len(path) = 1 => h = first_step
              /\ t_acc + h <= call.integration_timelimit
              /\ cand' = [t |-> t_acc + h,
                          q |-> <<q_acc[1] + h * v[1], q_acc[2] + h * v[2]>>]
    /\ robot' = cand'.q
    /\ UNCHANGED <<wrapper_vars, snap_vars, limits_vars>>
    /\ UNCHANGED <<call, pc, path, checks, nonlocals, clock, solver_ok, result,
                   mon>>

\* the checks that look at the start of the path only
ChecksFor_start_only(p, t, q) == <<[t |-> 0, q |-> p[1].q]>>

\* the checks reduced to the solver's own step time
ChecksFor_step_only(p, t, q) == <<[t |-> t, q |-> q]>>

\* the constraint checks fn_callback runs once (t, q) is on the path p
ChecksFor(p, t, q) ==
    IF Len(p) = 1 THEN <<[t |-> t, q |-> q]>>
    ELSE GetCollisionCheckPts(p, FALSE)

\* The solver accepts its trial point and calls fn_callback(t, q): the
\* waypoint is appended to the path and the checks to run are computed.
FnCallback ==
    /\ pc = "solve"
    /\ cand.t # None
    /\ path' = Append(path, [dt |-> cand.t - GetDuration(path), q |-> cand.q])
    /\ checks' = ChecksFor(path', cand.t, cand.q)
    /\ pc' = "check"
    /\ cand' = NoCand
    /\ UNCHANGED <<wrapper_vars, snap_vars, limits_vars>>
    /\ UNCHANGED <<call, nonlocals, robot, clock, solver_ok, result, mon>>

\* fn_callback catching only the Faults
IsPlanningError_faults_only(e) ==
    e.type # "None" /\ e.type # "TerminationError"

\* 'except PlanningError' in fn_callback: every exception that the monitor
\* raises is a PlanningError, the terminate signal included
IsPlanningError(e) == e # NoException

\* One iteration of fn_callback's loop: the monitor runs on the next check.
\* A PlanningError is stored in nonlocals['exception'] and the callback
\* returns -1, which stops the solver; otherwise t_check is recorded and,
\* after the last check, the callback returns 0.
FnStatusCallback ==
    /\ pc = "check"
    /\ checks # <<>>
    /\ \E now \in clock..timelimit,
          pred \in PredicateOutcomesAt(Head(checks).q) :
          LET s == Head(checks)
              r == fn_status_callback(s.t, s.q, now, pred, nonlocals.t_cache)
          IN  /\ clock' = now
              /\ mon' = [t |-> s.t, q |-> s.q] @@ r
              /\ robot' = IF r.committed THEN s.q ELSE robot
              /\ IF IsPlanningError(r.exception)
                 THEN /\ nonlocals' = [nonlocals EXCEPT
                                          !.exception = r.exception,
                                          !.t_cache = r.t_cache]
                      /\ checks' = <<>>
                      /\ pc' = "post"
                 ELSE /\ nonlocals' = [nonlocals EXCEPT
                                          !.t_cache = r.t_cache,
                                          !.t_check = s.t]
                      /\ checks' = Tail(checks)
                      /\ pc' = IF Tail(checks) = <<>> THEN "solve" ELSE "check"
    /\ UNCHANGED <<wrapper_vars, snap_vars, limits_vars>>
    /\ UNCHANGED <<call, path, cand, solver_ok, result>>

\* integrator.integrate returns because the solver reached t
IntegrateReturns ==
    /\ pc = "solve"
    /\ cand.t = None
    /\ GetDuration(path) = call.integration_timelimit
    /\ pc' = "post"
    /\ UNCHANGED <<wrapper_vars, snap_vars, limits_vars>>
    /\ UNCHANGED <<call, path, checks, nonlocals, robot, clock, cand, solver_ok,
                   result, mon>>

\* integrator.integrate returns early because the solver itself failed (step
\* size too small, too many steps, ...); FollowVectorField does not look at
\* integrator.successful()
SolverFails ==
    /\ pc = "solve"
    /\ Len(path) > 0
    /\ GetDuration(path) < call.integration_timelimit
    /\ solver_ok' = FALSE
    /\ cand' = NoCand
    /\ pc' = "post"
    /\ UNCHANGED <<wrapper_vars, snap_vars, limits_vars>>
    /\ UNCHANGED <<call, path, checks, nonlocals, robot, clock, result, mon>>

----------------------------------------------------------------------------
(* After the integration *)

\* raising whenever an exception is pending, cached prefix or not
RaisesAtEnd_any_exception(t_cache, exception) ==
    t_cache = None \/ exception # NoException

\* whether FollowVectorField raises instead of building a trajectory
RaisesAtEnd(t_cache, exception) == t_cache = None

\* the pending exception replaced by the generic error
RaisedError_generic(exception) == PlanningError

\* the exception it then raises
RaisedError(exception) ==
    IF exception # NoException THEN exception ELSE PlanningError

\* the groups of the integration path's configuration specification
\* (joint values and delta time) and of the output path's
cspec == {"joint_values", "deltatime"}
output_cspec_with_deltatime == {"joint_values", "deltatime"}
output_cspec == {"joint_values"}

\* the joint values of waypoints wps, as Insert(..., cspec) converts them to
\* output_cspec, which has no delta-time group
ToOutputSpec(wps) == [i \in 1..Len(wps) |-> wps[i].q]

\* an output path made of the start of the path and the sample at t_cache
OutputPath_endpoints(p, t_cache) == <<p[1].q, Sample(p, t_cache)>>

\* the output path cut at t_cache
OutputPath(p, t_cache) ==
    LET cached_index == GetFirstWaypointIndexAfterTime(p, t_cache)
    IN  ToOutputSpec(GetWaypoints(p, 0, cached_index))
            \o <<Sample(p, t_cache)>>

\* The tags of the trajectory the call returns: FollowVectorField flags it
\* constrained and smooth, and PlanToEndEffectorPose then overwrites the
\* constrained flag of the trajectory it got back.
ReturnedTags ==
    [CONSTRAINED |-> IF call.method = "PlanToEndEffectorPose"
                     THEN "False" ELSE "true",
     SMOOTH |-> "true"]

\* The end of FollowVectorField, and with it of the planning method that
\* called it: the planning methods return its trajectory and let its
\* exception through.
Finish ==
    /\ pc = "post"
    /\ LET t_cache == nonlocals.t_cache
           exception == nonlocals.exception
       IN  IF RaisesAtEnd(t_cache, exception)
           THEN result' = [kind |-> "raised", traj |-> <<>>,
                           error |-> RaisedError(exception),
                           logged |-> FALSE, tags |-> NoTags,
                           cspec |-> {}]
           ELSE result' = [kind |-> "returned",
                           traj |-> OutputPath(path, t_cache),
                           error |-> NoException,
                           logged |-> exception # NoException,
                           tags |-> ReturnedTags,
                           cspec |-> output_cspec]
    /\ pc' = "done"
    /\ UNCHANGED <<wrapper_vars, snap_vars, limits_vars>>
    /\ UNCHANGED <<call, path, checks, nonlocals, robot, clock, cand, solver_ok,
                   mon>>

Next ==
    \/ PlanToEndEffectorOffset
    \/ FnWrapper
    \/ FnCallback
    \/ FnStatusCallback
    \/ IntegrateReturns
    \/ SolverFails
    \/ Finish

Spec == Init /\ [][Next]_vars

----------------------------------------------------------------------------
(* The Robot wrapper: _PlanWrapper, PostProcessPath, ExecutePath and       *)
(* ExecuteTrajectory, called synchronously or with defer=True              *)

\* how long the model lets ExecuteTrajectory wait
MaxPoll == 2

\* numpy.inf as a time: later than any time the model reaches
Infinity == MaxPoll + 1

\* Robot planning methods (through _PlanWrapper) and the three methods of
\* the execution pipeline
Entries == {"Plan", "PostProcessPath", "ExecutePath", "ExecuteTrajectory"}

\* The calls made on the Robot.  keys are the keyword arguments passed
\* besides defer; an argument that is not passed has its default (execute:
\* True, timeout: None, constrained and smooth: None, read from the path's
\* tags).  tag_constrained and tag_smooth are the path's CONSTRAINED and
\* SMOOTH tags.
Requests ==
    {r \in [entry : Entries, defer : BOOLEAN,
            keys : SUBSET {"execute", "timeout", "constrained", "smooth"},
            execute : BOOLEAN, timeout : {None, 0, 1},
            constrained : BOOLEAN, tag_constrained : BOOLEAN,
            smooth : BOOLEAN, tag_smooth : BOOLEAN] :
        /\ "execute" \in r.keys => r.entry = "Plan"
        /\ "execute" \notin r.keys => r.execute
        /\ "timeout" \in r.keys <=> r.timeout # None
        /\ "timeout" \in r.keys => r.entry # "PostProcessPath"
        /\ "constrained" \in r.keys => r.entry # "ExecuteTrajectory"
        /\ "constrained" \notin r.keys => ~r.constrained
        /\ "smooth" \in r.keys => r.entry # "ExecuteTrajectory"
        /\ "smooth" \notin r.keys => ~r.smooth}

\* the keyword arguments, among those of the model, that PostProcessPath
\* and ExecuteTrajectory have as parameters; neither takes **kwargs
PostProcessPathKeys == {"constrained", "smooth"}
ExecuteTrajectoryKeys == {"timeout"}

TypeError == Exc("TypeError")

\* the exception raised by the call named what
RaisedBy(what) == Exc(what)

\* An exception leaves the code that is running: inside a deferred body
\* (executor job or coroutine) it becomes the exception of the future the
\* caller holds, otherwise the call itself raises it.
Raise(error) ==
    /\ stage' = "end"
    /\ IF future.state = "pending"
       THEN /\ future' = [state |-> "failed", value |-> "none",
                          error |-> error]
            /\ UNCHANGED outcome
       ELSE /\ outcome' = [kind |-> "raised", value |-> "none",
                           error |-> error]
            /\ UNCHANGED future

\* The code that is running returns value: the result of the future inside
\* a deferred body, otherwise the return value of the call.
Return(value) ==
    /\ stage' = "end"
    /\ IF future.state = "pending"
       THEN /\ future' = [state |-> "resolved", value |-> value,
                          error |-> NoException]
            /\ UNCHANGED outcome
       ELSE /\ outcome' = [kind |-> "returned", value |-> value,
                           error |-> NoException]
            /\ UNCHANGED future

\* the caller of a deferred call gets a pending future
ReturnFuture ==
    /\ future' = [state |-> "pending", value |-> "none",
                  error |-> NoException]
    /\ outcome' = [kind |-> "returned", value |-> "future",
                   error |-> NoException]

\* the planner is not running
PlannerIdle ==
    /\ call = BaseCall
    /\ pc = "idle"
    /\ path = <<>>
    /\ checks = <<>>
    /\ nonlocals = [exception |-> NoException, t_cache |-> None, t_check |-> 0]
    /\ robot = call.q_start
    /\ clock = 0
    /\ cand = NoCand
    /\ solver_ok = TRUE
    /\ result = NoResult
    /\ mon = NoMon

InitRobot ==
    /\ PlannerIdle
    /\ SnapIdle
    /\ LimitsIdle
    /\ req \in Requests
    /\ stage = "call"
    /\ planner = "none"
    /\ future = NoFuture
    /\ outcome = NoOutcome
    /\ events = <<>>
    /\ time_now = 0
    /\ controllers_done = FALSE

\* a future on which nothing waits
FutureDone_unawaited(f) == TRUE

\* yield trollius.From(f), and a synchronous call alike, go on once f has a
\* result or an exception
FutureDone(f) == f \in {"resolved", "failed"}

\* _PlanWrapper calls the planning method.  With defer=True the planning
\* method returns a future at once and the caller gets the Task that wraps
\* defer_trajectory.
PlanWrapper ==
    /\ stage = "call"
    /\ req.entry = "Plan"
    /\ planner' = "pending"
    /\ stage' = "plan"
    /\ events' = Append(events, "plan")
    /\ IF req.defer THEN ReturnFuture ELSE UNCHANGED <<future, outcome>>
    /\ UNCHANGED <<req, time_now, controllers_done>>
    /\ UNCHANGED <<planner_vars, snap_vars, limits_vars>>

\* The caller cancels the Task of a deferred planning call while
\* defer_trajectory waits for the planner: Task.cancel() cancels the wait,
\* and the Task is marked cancelled once the coroutine has been woken.
Cancel ==
    /\ req.entry = "Plan"
    /\ req.defer
    /\ stage = "plan"
    /\ future.state = "pending"
    /\ future' = [future EXCEPT !.state = "cancelling"]
    /\ events' = Append(events, "cancel")
    /\ UNCHANGED <<req, stage, planner, outcome, time_now, controllers_done>>
    /\ UNCHANGED <<planner_vars, snap_vars, limits_vars>>

\* The planning method produces a trajectory or raises; it runs to its end
\* also when nothing waits for it any more.
PlannerFinishes ==
    /\ stage \in {"plan", "end"}
    /\ planner = "pending"
    /\ \E p \in {"resolved", "failed"} : planner' = p
    /\ events' = IF planner' = "resolved" THEN Append(events, "planned")
                 ELSE events
    /\ UNCHANGED <<req, stage, future, outcome, time_now, controllers_done>>
    /\ UNCHANGED <<planner_vars, snap_vars, limits_vars>>

\* a cancellation that the waiting coroutine never sees
ThrowsCancelled_ignored(f) == FALSE

\* yield trollius.From(...) raises CancelledError in the coroutine of a
\* Task whose cancellation was requested
ThrowsCancelled(f) == f.state = "cancelling"

\* the execute argument with a default of False
Execute_default_false == "execute" \in req.keys /\ req.execute

\* kw_args.get('execute', True)
Execute == IF "execute" \in req.keys THEN req.execute ELSE TRUE

\* The rest of _PlanWrapper once the planner is done (defer_trajectory
\* resumed from its first yield, or the synchronous branch): the planner's
\* exception propagates; otherwise the trajectory is converted and, unless
\* execute is false, ExecutePath is called on it.  defer_trajectory does
\* not catch the CancelledError of a cancelled wait, which ends it.
defer_trajectory ==
    /\ stage = "plan"
    /\ ThrowsCancelled(future) \/ FutureDone(planner)
    /\ IF ThrowsCancelled(future)
       THEN /\ stage' = "end"
            /\ future' = [future EXCEPT !.state = "cancelled"]
            /\ UNCHANGED <<outcome, events>>
       ELSE IF planner = "failed"
       THEN /\ Raise(PlanningError)
            /\ UNCHANGED events
       ELSE /\ events' = Append(events, "convert")
            /\ \E converted \in BOOLEAN :
                  IF ~converted
                  THEN Raise(RaisedBy("ConvertTrajectorySpecification"))
                  ELSE IF Execute
                  THEN /\ stage' = "ExecutePath"
                       /\ UNCHANGED <<future, outcome>>
                  ELSE Return("path")
    /\ UNCHANGED <<req, planner, time_now, controllers_done>>
    /\ UNCHANGED <<planner_vars, snap_vars, limits_vars>>

\* ExecutePath is called, by the caller or by _PlanWrapper (which passes
\* its own keyword arguments on): do_execute runs at once or is submitted
\* to the executor.
ExecutePath ==
    /\ \/ stage = "call" /\ req.entry = "ExecutePath"
       \/ stage = "ExecutePath"
    /\ stage' = "do_execute"
    /\ events' = Append(events, "ExecutePath")
    /\ IF req.defer /\ future.state = "none"
       THEN ReturnFuture
       ELSE UNCHANGED <<future, outcome>>
    /\ UNCHANGED <<req, planner, time_now, controllers_done>>
    /\ UNCHANGED <<planner_vars, snap_vars, limits_vars>>

\* PostProcessPath is called, by the caller or by do_execute with
\* ExecutePath's keyword arguments: do_postprocess runs at once or is
\* submitted to the executor.
PostProcessPath ==
    /\ \/ stage = "call" /\ req.entry = "PostProcessPath"
       \/ stage = "do_execute"
    /\ IF ~(req.keys \subseteq PostProcessPathKeys)
       THEN /\ Raise(TypeError)
            /\ UNCHANGED events
       ELSE /\ stage' = "do_postprocess"
            /\ events' = Append(events, "PostProcessPath")
            /\ IF req.defer /\ future.state = "none"
               THEN ReturnFuture
               ELSE UNCHANGED <<future, outcome>>
    /\ UNCHANGED <<req, planner, time_now, controllers_done>>
    /\ UNCHANGED <<planner_vars, snap_vars, limits_vars>>

\* PostProcessPath reading only the path's tag
Constrained_tag_only == req.tag_constrained

\* whether PostProcessPath treats the path as constrained: the argument if
\* it is passed, the path's tag otherwise
Constrained ==
    IF "constrained" \in req.keys THEN req.constrained
    ELSE req.tag_constrained

\* whether PostProcessPath treats the path as smooth: the argument if it is
\* passed, the path's tag otherwise
Smooth ==
    IF "smooth" \in req.keys THEN req.smooth
    ELSE req.tag_smooth

\* what do_postprocess logs before it chooses its pipeline: a warning for a
\* smooth path, which is then processed as any other path
Logged ==
    IF Smooth THEN Append(events, "warning: smooth paths not supported")
    ELSE events

\* do_postprocess has its timed trajectory: PostProcessPath returns it, to
\* its caller or to do_execute
PostProcessed ==
    IF req.entry = "PostProcessPath"
    THEN Return("trajectory")
    ELSE /\ stage' = "postprocessed"
         /\ UNCHANGED <<future, outcome>>

\* do_postprocess up to its first planner call: a constrained path is
\* retimed, any other path is shortcut first
do_postprocess ==
    /\ stage = "do_postprocess"
    /\ \E in_trajectory \in BOOLEAN, ok \in BOOLEAN :
          IF ~in_trajectory
          THEN /\ Raise(ValueError)
               /\ UNCHANGED events
          ELSE IF Constrained
          THEN /\ events' = Append(Logged, "retimer.RetimeTrajectory")
               /\ IF ok THEN PostProcessed ELSE Raise(PlanningError)
          ELSE /\ events' = Append(Logged, "ShortcutPath")
               /\ IF ok
                  THEN /\ stage' = "shortcut"
                       /\ UNCHANGED <<future, outcome>>
                  ELSE Raise(PlanningError)
    /\ UNCHANGED <<req, planner, time_now, controllers_done>>
    /\ UNCHANGED <<planner_vars, snap_vars, limits_vars>>

\* do_postprocess after the shortcut: the smoother times the path
smoother_RetimeTrajectory ==
    /\ stage = "shortcut"
    /\ events' = Append(events, "smoother.RetimeTrajectory")
    /\ \E ok \in BOOLEAN : IF ok THEN PostProcessed ELSE Raise(PlanningError)
    /\ UNCHANGED <<req, planner, time_now, controllers_done>>
    /\ UNCHANGED <<planner_vars, snap_vars, limits_vars>>

\* ExecuteTrajectory is called, by the caller or by do_execute with
\* ExecutePath's keyword arguments and defer=False: the trajectory is given
\* to the controller, and with defer=True the caller then gets the future
\* of do_poll.
ExecuteTrajectory ==
    /\ \/ stage = "call" /\ req.entry = "ExecuteTrajectory"
       \/ stage = "postprocessed"
    /\ IF ~(req.keys \subseteq ExecuteTrajectoryKeys)
       THEN /\ Raise(TypeError)
            /\ UNCHANGED events
       ELSE /\ events' = Append(events, "ExecuteTrajectory")
            /\ \E accepted \in BOOLEAN :
                  IF ~accepted
                  THEN Raise(RaisedBy("SetPath"))
                  ELSE /\ stage' = "wait"
                       /\ IF req.defer /\ future.state = "none"
                          THEN ReturnFuture
                          ELSE UNCHANGED <<future, outcome>>
    /\ UNCHANGED <<req, planner, time_now, controllers_done>>
    /\ UNCHANGED <<planner_vars, snap_vars, limits_vars>>

\* the controllers finish executing the trajectory
ControllersFinish ==
    /\ stage = "wait"
    /\ ~controllers_done
    /\ controllers_done' = TRUE
    /\ UNCHANGED <<req, stage, planner, future, outcome, events, time_now>>
    /\ UNCHANGED <<planner_vars, snap_vars, limits_vars>>

\* ExecuteTrajectory itself was called with defer=True
PollsDeferred == req.entry = "ExecuteTrajectory" /\ req.defer

\* time.time() + (timeout if timeout else numpy.inf), the wait having
\* started at time 0
TimeStop(timeout) ==
    IF timeout = None \/ timeout = 0 THEN Infinity ELSE timeout

\* One iteration of do_poll's loop, or its end: the future gets the
\* trajectory once all controllers are done, None once time_stop is passed.
do_poll ==
    /\ stage = "wait"
    /\ PollsDeferred
    /\ IF time_now <= TimeStop(req.timeout)
       THEN \E raises \in BOOLEAN :
               IF raises
               THEN /\ Raise(RaisedBy("IsDone"))
                    /\ UNCHANGED time_now
               ELSE IF controllers_done
               THEN /\ Return("trajectory")
                    /\ UNCHANGED time_now
               ELSE /\ time_now < MaxPoll
                    /\ time_now' = time_now + 1
                    /\ UNCHANGED <<stage, future, outcome>>
       ELSE /\ Return("None")
            /\ UNCHANGED time_now
    /\ UNCHANGED <<req, planner, events, controllers_done>>
    /\ UNCHANGED <<planner_vars, snap_vars, limits_vars>>

\* time passes while util.WaitForControllers blocks
TimePasses ==
    /\ stage = "wait"
    /\ ~PollsDeferred
    /\ time_now < MaxPoll
    /\ time_now' = time_now + 1
    /\ UNCHANGED <<req, stage, planner, future, outcome, events,
                   controllers_done>>
    /\ UNCHANGED <<planner_vars, snap_vars, limits_vars>>

\* util.WaitForControllers(active_controllers, timeout) returns: all the
\* controllers are done or the timeout has elapsed
WaitReturns(timeout) ==
    controllers_done \/ (timeout # None /\ time_now >= timeout)

\* The synchronous end of ExecuteTrajectory: util.WaitForControllers
\* returns or raises, and the trajectory is returned.
WaitForControllers ==
    /\ stage = "wait"
    /\ ~PollsDeferred
    /\ \E raises \in BOOLEAN :
          IF raises
          THEN Raise(RaisedBy("WaitForControllers"))
          ELSE /\ WaitReturns(req.timeout)
               /\ Return("trajectory")
    /\ UNCHANGED <<req, planner, events, time_now, controllers_done>>
    /\ UNCHANGED <<planner_vars, snap_vars, limits_vars>>

NextRobot ==
    \/ PlanWrapper
    \/ Cancel
    \/ PlannerFinishes
    \/ defer_trajectory
    \/ ExecutePath
    \/ PostProcessPath
    \/ do_postprocess
    \/ smoother_RetimeTrajectory
    \/ ExecuteTrajectory
    \/ ControllersFinish
    \/ do_poll
    \/ TimePasses
    \/ WaitForControllers

SpecRobot == InitRobot /\ [][NextRobot]_vars

----------------------------------------------------------------------------
(* The SnapPlanner: PlanToConfiguration, PlanToEndEffectorPose and _Snap   *)

\* the joint values of the model's configurations
JointValues == 0..2

Configurations == JointValues \X JointValues

\* what manipulator.FindIKSolutions can return: no solution, one or two
IkSolutions ==
    LET S == {<<0, 0>>, <<2, 1>>, <<1, 2>>}
    IN  {<<>>} \cup {<<a>> : a \in S} \cup {<<a, b>> : a \in S, b \in S}

\* snap_tolerance in joint units; the default, 0.1, is one unit
SnapTolerances == {0, 1}

SnapCalls ==
    {c \in [method : {"PlanToConfiguration", "PlanToEndEffectorPose"},
            current_dof_values : Configurations, goal : Configurations,
            ik_solutions : IkSolutions, snap_tolerance : SnapTolerances] :
        /\ c.method = "PlanToConfiguration" => c.ik_solutions = <<>>
        /\ c.method = "PlanToEndEffectorPose" => c.goal = <<0, 0>>}

\* numpy's max() of a vector
Max(v) == CHOOSE m \in {v[i] : i \in DOFs} : \A i \in DOFs : v[i] <= m

\* goal - current_dof_values
Difference(a, b) == [i \in DOFs |-> a[i] - b[i]]

\* PlanToEndEffectorPose's score of an IK solution
Score(solution, current_config) ==
    Max([i \in DOFs |-> Abs(solution[i] - current_config[i])])

SnapReturns(traj) ==
    /\ snap_result' = [kind |-> "returned", traj |-> traj,
                       error |-> NoException]
    /\ snap_pc' = "end"

SnapRaises(error) ==
    /\ snap_result' = [kind |-> "raised", traj |-> <<>>, error |-> error]
    /\ snap_pc' = "end"

InitSnap ==
    /\ PlannerIdle
    /\ WrapperIdle
    /\ LimitsIdle
    /\ snap_call \in SnapCalls
    /\ snap_pc = "call"
    /\ snap_goal = <<0, 0>>
    /\ snap_result = NoSnapResult

\* PlanToConfiguration passes its goal to _Snap
PlanToConfiguration ==
    /\ snap_pc = "call"
    /\ snap_call.method = "PlanToConfiguration"
    /\ snap_goal' = snap_call.goal
    /\ snap_pc' = "_Snap"
    /\ UNCHANGED <<snap_call, snap_result>>
    /\ UNCHANGED <<planner_vars, wrapper_vars, limits_vars>>

\* PlanToEndEffectorPose raises if there is no IK solution, and otherwise
\* passes to _Snap a solution of the lowest score (argsort does not say
\* which one it puts first of several with the same score)
PlanToEndEffectorPose ==
    /\ snap_pc = "call"
    /\ snap_call.method = "PlanToEndEffectorPose"
    /\ LET ik_solutions == snap_call.ik_solutions
           scores == [i \in DOMAIN ik_solutions |->
                        Score(ik_solutions[i], snap_call.current_dof_values)]
       IN  IF Len(ik_solutions) = 0
           THEN /\ SnapRaises(PlanningError)
                /\ UNCHANGED snap_goal
           ELSE /\ \E i \in DOMAIN ik_solutions :
                     /\ \A j \in DOMAIN ik_solutions : scores[i] <= scores[j]
                     /\ snap_goal' = ik_solutions[i]
                /\ snap_pc' = "_Snap"
                /\ UNCHANGED snap_result
    /\ UNCHANGED snap_call
    /\ UNCHANGED <<planner_vars, wrapper_vars, limits_vars>>

\* _Snap raises if the largest of the differences goal - current is above
\* the tolerance, and otherwise returns a trajectory of two waypoints, both
\* made from current_dof_values
Snap ==
    /\ snap_pc = "_Snap"
    /\ LET current_dof_values == snap_call.current_dof_values
       IN  IF Max(Difference(snap_goal, current_dof_values))
                > snap_call.snap_tolerance
           THEN SnapRaises(PlanningError)
           ELSE LET waypoint1 == current_dof_values
                    waypoint2 == current_dof_values
                IN  SnapReturns(<<waypoint1, waypoint2>>)
    /\ UNCHANGED <<snap_call, snap_goal>>
    /\ UNCHANGED <<planner_vars, wrapper_vars, limits_vars>>

NextSnap ==
    \/ PlanToConfiguration
    \/ PlanToEndEffectorPose
    \/ Snap

SpecSnap == InitSnap /\ [][NextSnap]_vars

-----------------------------------------------------------------------------
(* Robot.ViolatesVelocityLimits *)

\* the velocity limits of the trajectory's joints
velocity_limits == <<1, 1>>

\* The waypoints of the model's trajectories: the delta time since the
\* waypoint before, the joint values, and the joint velocities stored in
\* the waypoint (read only if the trajectory has a velocity group).
Waypoints ==
    [dt : {1, 2}, values : {<<0, 0>>, <<1, 0>>, <<0, -2>>},
     velocities : {<<0, 0>>, <<2, 0>>, <<0, -2>>}]

\* the trajectories, of one to three waypoints: the first waypoint has
\* delta time 0
Trajectories ==
    LET First == {[w EXCEPT !.dt = 0] : w \in Waypoints}
    IN  UNION {{<<a>> : a \in First},
               {<<a, b>> : a \in First, b \in Waypoints},
               {<<a, b, c>> : a \in First, b \in Waypoints,
                              c \in Waypoints}}

LimitsCalls ==
    [traj : Trajectories, has_velocity_group : BOOLEAN]

\* 'velocities[vidx] > velocity_limits[vidx]' for some vidx
StoredVelocityExceeds(wpt) ==
    \E vidx \in DOFs : wpt.velocities[vidx] > velocity_limits[vidx]

\* 'numpy.fabs(values - prev_values)/(dt - prev_dt) > limit' for one joint:
\* with a positive denominator the quotient is compared; a zero denominator
\* gives inf for a joint that moved (above any limit) and nan for one that
\* did not (above nothing); a negative one gives a quotient <= 0
DiffVelocityExceeds(diff, denominator, limit) ==
    IF denominator > 0 THEN diff > limit * denominator
    ELSE IF denominator = 0 THEN diff > 0
    ELSE FALSE

\* the loop over the waypoints from idx (1-based) on: TRUE at the first
\* waypoint that fails a test, FALSE when the loop runs out
RECURSIVE ViolatesFrom(_, _, _)
ViolatesFrom(traj, has_velocity_group, idx) ==
    IF idx > Len(traj) THEN FALSE
    ELSE LET wpt == traj[idx]
             dt == wpt.dt
             values == wpt.values
         IN  IF has_velocity_group /\ StoredVelocityExceeds(wpt)
             THEN TRUE
             ELSE IF /\ idx > 1
                     /\ LET prev_dt == traj[idx - 1].dt
                            prev_values == traj[idx - 1].values
                        IN  \E vidx \in DOFs :
                               DiffVelocityExceeds(
                                   Abs(values[vidx] - prev_values[vidx]),
                                   dt - prev_dt, velocity_limits[vidx])
             THEN TRUE
             ELSE ViolatesFrom(traj, has_velocity_group, idx + 1)

InitLimits ==
    /\ PlannerIdle
    /\ WrapperIdle
    /\ SnapIdle
    /\ limits_call \in LimitsCalls
    /\ limits_result = "none"

\* ViolatesVelocityLimits(traj) runs and returns True or False
ViolatesVelocityLimits ==
    /\ limits_result = "none"
    /\ limits_call # NoLimitsCall
    /\ limits_result' =
          IF ViolatesFrom(limits_call.traj, limits_call.has_velocity_group, 1)
          THEN "True" ELSE "False"
    /\ UNCHANGED limits_call
    /\ UNCHANGED <<planner_vars, wrapper_vars, snap_vars>>

NextLimits == ViolatesVelocityLimits

SpecLimits == InitLimits /\ [][NextLimits]_vars

-----------------------------------------------------------------------------
(* Properties of FollowVectorField *)

\* the exception types that are Faults (everything but the terminate signal)
FaultTypes == {"TimeLimitError", "JointLimitError", "CollisionPlanningError",
               "SelfCollisionPlanningError", "ConstraintViolationPlanningError"}

ViolatesPositionLimit(q) ==
    \E i \in DOFs : q[i] < q_limit_min[i] \/ q[i] > q_limit_max[i]

\* the joint values of the raw waypoints of p with cumulative time before t
WaypointsBefore(p, t) ==
    LET n == Cardinality({i \in 1..Len(p) : AccumTime(p, i) < t})
    IN  [i \in 1..n |-> p[i].q]

\* C1: a call that ends with a Fault pending and t_cache set returns the
\* trajectory cut at t_cache and logs the Fault; it does not raise.
C1_FaultAfterCacheReturnsPrefix ==
    (pc = "done" /\ nonlocals.t_cache # None
                 /\ nonlocals.exception.type \in FaultTypes)
        => /\ result.kind = "returned"
           /\ result.error = NoException
           /\ result.logged
           /\ result.traj # <<>>
           /\ result.traj[Len(result.traj)] = Sample(path, nonlocals.t_cache)

C1_Witness ==
    /\ pc = "done"
    /\ nonlocals.t_cache # None
    /\ nonlocals.exception = CollisionPlanningError
    /\ mon.t > nonlocals.t_cache
    /\ result.kind = "returned"

\* C2: a call that ends with t_cache never set returns no trajectory; it
\* raises the recorded exception, or the generic PlanningError if none was
\* recorded.
C2_NoCacheRaises ==
    (pc = "done" /\ nonlocals.t_cache = None)
        => /\ result.kind = "raised"
           /\ result.traj = <<>>
           /\ (nonlocals.exception # NoException
                  => result.error = nonlocals.exception)
           /\ (nonlocals.exception = NoException
                  => result.error = PlanningError)

C2_Witness ==
    /\ pc = "done"
    /\ nonlocals.t_cache = None
    /\ nonlocals.exception.type = "JointLimitError"
    /\ result.kind = "raised"
    /\ result.error = nonlocals.exception

\* C3: every assignment to t_cache during one call stores a time that is not
\* earlier than the one it already holds.
C3_TCacheNonDecreasing ==
    [][nonlocals.t_cache # None => nonlocals'.t_cache >= nonlocals.t_cache]_vars

\* C4: the returned trajectory is exactly the raw waypoints with cumulative
\* time strictly before t_cache, in order, followed by the path sampled at
\* t_cache.
C4_OutputIsPrefixPlusSample ==
    result.kind = "returned"
        => result.traj = WaypointsBefore(path, nonlocals.t_cache)
                             \o <<Sample(path, nonlocals.t_cache)>>

\* the sample times of the path on which the environment-collision oracle
\* reports a collision
CollidingTimes == {k \in 0..GetDuration(path) : CheckCollision(Sample(path, k))}

\* C5: a colliding configuration on the path is never stepped over, also when
\* it lies strictly between two solver step times: it is either still among
\* the checks to run, or integration has stopped at or before it; and when
\* the monitor's collision check ran on it, the collision Fault is recorded.
C5_IntermediateCollisionDetected ==
    Len(path) > 0 =>
        \A k \in CollidingTimes :
            /\ \/ \E i \in 1..Len(checks) : checks[i].t = k
               \/ nonlocals.exception # NoException /\ mon.t <= k
            /\ (mon.t = k /\ mon.env_checked)
                  => /\ mon.exception = CollisionPlanningError
                     /\ nonlocals.exception = CollisionPlanningError

C5_Witness ==
    /\ Len(path) >= 2
    /\ mon.t > AccumTime(path, Len(path) - 1)
    /\ mon.t < GetDuration(path)
    /\ mon.t \in CollidingTimes
    /\ nonlocals.exception = CollisionPlanningError

\* a sample has been monitored, it violates a position limit and it is at a
\* configuration in collision
LimitAndCollision ==
    /\ mon.t # None
    /\ ViolatesPositionLimit(mon.q)
    /\ CheckCollision(mon.q) \/ CheckSelfCollision(mon.q)

\* C6: on a sample that violates a position limit and is also in collision,
\* neither collision check runs and the configuration is not committed; the
\* Fault recorded is the joint-limit Fault, unless the wall-clock limit had
\* been reached at that sample, and then it is the time-limit Fault.
C6_LimitBeforeCollision ==
    LimitAndCollision
        => /\ ~mon.env_checked /\ ~mon.self_checked /\ ~mon.committed
           /\ mon.exception.type =
                 IF clock >= timelimit THEN "TimeLimitError"
                 ELSE "JointLimitError"
           /\ nonlocals.exception = mon.exception

C6_Witness ==
    /\ LimitAndCollision
    /\ clock < timelimit
    /\ nonlocals.exception.type = "JointLimitError"
    /\ nonlocals.exception.dof_value = mon.q[nonlocals.exception.dof_index]

\* C6 as stated: the Fault recorded on such a sample is always the
\* joint-limit Fault.
C6_Original ==
    LimitAndCollision
        => /\ ~mon.env_checked /\ ~mon.self_checked
           /\ mon.exception.type = "JointLimitError"

\* C7: the robot's live configuration is never outside the position limits.
C7_RobotWithinLimits == ~ViolatesPositionLimit(robot)

\* C8: on the status the predicate returned, caching happens exactly for
\* CACHE_AND_CONTINUE and CACHE_AND_TERMINATE, termination exactly for
\* TERMINATE and CACHE_AND_TERMINATE, CONTINUE does neither, and each
\* combination of the two bits belongs to exactly one status.
C8_StatusDecoding ==
    /\ mon.status \in Status
          => /\ DoesCache(mon.status)
                    <=> mon.status \in {CACHE_AND_CONTINUE, CACHE_AND_TERMINATE}
             /\ DoesTerminate(mon.status)
                    <=> mon.status \in {TERMINATE, CACHE_AND_TERMINATE}
             /\ mon.status = CONTINUE
                    => ~DoesCache(mon.status) /\ ~DoesTerminate(mon.status)
             /\ mon.status \in {CACHE_AND_CONTINUE, CACHE_AND_TERMINATE}
                    => mon.t_cache = mon.t /\ nonlocals.t_cache = mon.t
             /\ mon.status \in {TERMINATE, CACHE_AND_TERMINATE}
                    <=> mon.exception = TerminationError
    /\ \A c \in BOOLEAN, t \in BOOLEAN :
          Cardinality({st \in Status : DoesCache(st) = c
                                         /\ DoesTerminate(st) = t}) = 1

C8_Witness ==
    /\ mon.status = CACHE_AND_TERMINATE
    /\ nonlocals.t_cache = mon.t
    /\ nonlocals.exception = TerminationError

\* C9: after CACHE_AND_TERMINATE on the sample at time t, t_cache is t and
\* integration has stopped; the call returns a trajectory whose last
\* waypoint is the path sampled at t.
C9_CacheAndTerminate ==
    mon.status = CACHE_AND_TERMINATE
        => /\ nonlocals.t_cache = mon.t
           /\ pc \in {"post", "done"}
           /\ pc = "done"
                 => /\ result.kind = "returned"
                    /\ result.traj[Len(result.traj)] = Sample(path, mon.t)

C9_Witness ==
    /\ pc = "done"
    /\ mon.status = CACHE_AND_TERMINATE
    /\ mon.t > 0
    /\ result.kind = "returned"
    /\ result.traj[Len(result.traj)] = mon.q

\* C10: FollowVectorField never raises TerminationError to its caller.
C10_NeverRaisesTerminationError ==
    result.kind = "raised" => result.error # TerminationError

----------------------------------------------------------------------------
(* The planning methods built on FollowVectorField *)

\* C11: a PlanToEndEffectorPose call in which the predicate ran on a sample
\* whose pose error is below pose_error_tol returns a trajectory, and that
\* trajectory is tagged Constrained = False.
C11_PoseReachedReturnsTrajectory ==
    (/\ call.method = "PlanToEndEffectorPose"
     /\ pc = "done"
     /\ mon.pred_called
     /\ GeodesicDistance(mon.q, call.goal_pose) < call.pose_error_tol)
        => /\ result.kind = "returned"
           /\ result.tags.CONSTRAINED = "False"

\* the distance from the start of the call to q along the call's direction
DistanceAlongDirection(q) ==
    LET d == call.direction
    IN  IF d[1] # 0
        THEN (q[1] - call.q_start[1]) * (d[1] \div Abs(d[1]))
        ELSE (q[2] - call.q_start[2]) * (d[2] \div Abs(d[2]))

\* C12: a trajectory returned by PlanToEndEffectorOffset ends at the sample
\* the predicate cached last, which has moved at least distance and, when
\* max_distance is given, at most max_distance along direction; a call that
\* does not return such a trajectory raises.
C12_OffsetEndsInRange ==
    (call.method = "PlanToEndEffectorOffset" /\ pc = "done")
        => IF result.kind = "returned"
           THEN LET q_end == result.traj[Len(result.traj)]
                    moved == DistanceAlongDirection(q_end)
                IN  /\ nonlocals.t_cache # None
                    /\ nonlocals.t_cache <= GetDuration(path)
                    /\ q_end = Sample(path, nonlocals.t_cache)
                    /\ moved >= call.distance
                    /\ call.max_distance # None => moved <= call.max_distance
           ELSE result.kind = "raised"

\* a returned offset trajectory of several waypoints with max_distance given,
\* after the robot had moved beyond max_distance
C12_Witness ==
    /\ call.method = "PlanToEndEffectorOffset"
    /\ call.max_distance # None
    /\ result.kind = "returned"
    /\ Len(result.traj) >= 2
    /\ mon.status = TERMINATE
    /\ DistanceAlongDirection(mon.q) > call.max_distance

\* the arguments the call was made with are not acceptable
InvalidOffsetArguments ==
    \/ call.distance < 0
    \/ call.direction = <<0, 0>>
    \/ call.max_distance # None /\ call.max_distance < call.distance
    \/ call.position_tolerance < 0
    \/ call.angular_tolerance < 0

\* C13: a PlanToEndEffectorOffset call with a negative distance, a zero
\* direction, max_distance below distance or a negative tolerance never gets
\* to the integration: no waypoint is added, the vector field and the
\* monitor (and so the predicate) are never evaluated, the robot keeps its
\* configuration, and the call ends by raising a ValueError.
C13_InvalidArgumentsRejected ==
    (call.method = "PlanToEndEffectorOffset" /\ InvalidOffsetArguments)
        => /\ pc \in {"call", "rejected"}
           /\ path = <<>>
           /\ cand = [t |-> 0, q |-> call.q_start]
           /\ mon = NoMon
           /\ robot = call.q_start
           /\ pc = "rejected" => /\ result.kind = "raised"
                                 /\ result.error = ValueError

\* a call rejected for its negative angular tolerance alone
C13_Witness ==
    /\ pc = "rejected"
    /\ result.error = ValueError
    /\ call.angular_tolerance < 0
    /\ call.distance >= 0
    /\ call.direction # <<0, 0>>
    /\ call.max_distance = None \/ call.max_distance >= call.distance
    /\ call.position_tolerance >= 0

----------------------------------------------------------------------------
(* Solver failures, Fault contents and the output trajectory *)

\* C14: a call in which the solver itself failed (it stopped before
\* integration_timelimit while the callbacks recorded no exception) raises,
\* whether or not t_cache is set.
C14_SolverFailureIsFatal ==
    (pc = "done" /\ ~solver_ok /\ nonlocals.exception = NoException)
        => result.kind = "raised"

\* the DOFs of q below their lower limit, and those above their upper limit
BelowLower(q) == {i \in DOFs : q[i] < call.q_limit_min[i]}
AboveUpper(q) == {i \in DOFs : q[i] > call.q_limit_max[i]}

\* the lowest index of a non-empty set of DOFs
Lowest(S) == CHOOSE i \in S : \A j \in S : i <= j

\* the joint-limit Fault that names DOF i of q and the bound it violates
FaultOfDOF(q, i) ==
    [type |-> "JointLimitError", dof_index |-> i, dof_value |-> q[i],
     dof_limit |-> IF i \in BelowLower(q) THEN call.q_limit_min[i]
                   ELSE call.q_limit_max[i]]

\* C15: the joint-limit Fault of a sample names the lowest-index DOF that
\* violates its lower limit if there is one, and otherwise the lowest-index
\* DOF that violates its upper limit, with its value and that bound.
C15_LowerLimitsFirst ==
    mon.exception.type = "JointLimitError"
        => mon.exception =
              IF BelowLower(mon.q) # {}
              THEN FaultOfDOF(mon.q, Lowest(BelowLower(mon.q)))
              ELSE FaultOfDOF(mon.q, Lowest(AboveUpper(mon.q)))

\* a joint-limit Fault on a sample whose first DOF is above its upper limit
\* and whose second DOF is below its lower limit
C15_Witness ==
    /\ mon.exception.type = "JointLimitError"
    /\ 1 \in AboveUpper(mon.q)
    /\ 2 \in BelowLower(mon.q)

\* C15 as stated: the Fault names the lowest-index DOF among all the DOFs
\* that violate a limit, lower or upper.
C15_Original ==
    mon.exception.type = "JointLimitError"
        => mon.exception =
              FaultOfDOF(mon.q,
                         Lowest(BelowLower(mon.q) \cup AboveUpper(mon.q)))

\* C16: the waypoints copied from the raw path into the returned trajectory
\* keep their joint values and their order but not their time deltas: the
\* returned trajectory has no delta-time group.
C16_OutputHasNoTiming ==
    result.kind = "returned"
        => /\ result.cspec = {"joint_values"}
           /\ \A i \in 1..(Len(result.traj) - 1) : result.traj[i] = path[i].q

\* a returned trajectory with two copied waypoints that were one time unit
\* apart on the raw path
C16_Witness ==
    /\ result.kind = "returned"
    /\ Len(result.traj) >= 3
    /\ path[2].dt = 1

\* C16 as stated: the returned trajectory carries the time deltas of the
\* raw path.
C16_Original ==
    result.kind = "returned" => "deltatime" \in result.cspec

C18_ChecksScaledByMultiplier ==
    \A i \in 1..(Len(checks) - 1) :
        checks[i + 1].t - checks[i].t = call.dt_multiplier

----------------------------------------------------------------------------
(* The Robot wrapper in deferred mode *)

\* the stage named e has begun
Happened(e) == \E i \in 1..Len(events) : events[i] = e

\* the stage named a began before the stage named b
Precedes(a, b) ==
    \E i, j \in 1..Len(events) : i < j /\ events[i] = a /\ events[j] = b

\* C19: in a deferred call, the conversion of the trajectory starts only
\* after the planner has produced it, ExecutePath only after the
\* conversion, PostProcessPath only inside ExecutePath, and
\* ExecuteTrajectory only after PostProcessPath has timed the trajectory
\* (by the retimer, or by the smoother after the shortcut).
C19_StagesInOrder ==
    (req.defer /\ req.entry \in {"Plan", "ExecutePath"})
        => /\ Happened("convert")
                => planner = "resolved" /\ Precedes("planned", "convert")
           /\ (req.entry = "Plan" /\ Happened("ExecutePath"))
                => Precedes("convert", "ExecutePath")
           /\ Happened("PostProcessPath")
                => Precedes("ExecutePath", "PostProcessPath")
           /\ Happened("smoother.RetimeTrajectory")
                => Precedes("ShortcutPath", "smoother.RetimeTrajectory")
           /\ Happened("ExecuteTrajectory")
                => /\ stage \in {"wait", "end"}
                   /\ Precedes("PostProcessPath", "ExecuteTrajectory")
                   /\ \/ Precedes("retimer.RetimeTrajectory",
                                  "ExecuteTrajectory")
                      \/ Precedes("smoother.RetimeTrajectory",
                                  "ExecuteTrajectory")

\* a deferred planning call whose future has got the executed trajectory
C19_Witness ==
    /\ req.defer
    /\ req.entry = "Plan"
    /\ Happened("ExecuteTrajectory")
    /\ future.state = "resolved"
    /\ future.value = "trajectory"

\* C20: a deferred call that is not cancelled never raises by itself; the
\* exception of a failed planner is the exception of the future; and the
\* future's result is None only when do_poll ran past its time_stop.
C20_DeferredFailuresThroughFuture ==
    (req.defer /\ stage = "end" /\ ~Happened("cancel"))
        => /\ outcome.kind # "raised"
           /\ future.state \in {"resolved", "failed"}
           /\ planner = "failed"
                => future.state = "failed" /\ future.error = PlanningError
           /\ (future.state = "resolved" /\ future.value = "None")
                => PollsDeferred /\ time_now > TimeStop(req.timeout)

\* the handle was cancelled while the planner had not finished
CancelledWhilePlanning ==
    Happened("cancel") /\ ~Precedes("planned", "cancel")

\* C21: when the Task of a deferred planning call is cancelled while the
\* planner is still running, the trajectory is never converted and
\* ExecutePath never called, whatever the planner then produces; the Task
\* ends cancelled.
C21_CancelStopsLaterStages ==
    (req.entry = "Plan" /\ req.defer /\ CancelledWhilePlanning)
        => /\ ~Happened("convert")
           /\ ~Happened("ExecutePath")
           /\ ~Happened("PostProcessPath")
           /\ ~Happened("ExecuteTrajectory")
           /\ future.state \in {"cancelling", "cancelled"}

\* the planner produced its trajectory after the handle was cancelled
C21_Witness ==
    /\ req.entry = "Plan"
    /\ req.defer
    /\ req.execute
    /\ Precedes("cancel", "planned")
    /\ planner = "resolved"
    /\ stage = "end"

----------------------------------------------------------------------------
(* ExecuteTrajectory's timeout and PostProcessPath's pipelines *)

\* the call has produced a value: its return value, or the result of its
\* future in deferred mode
Yielded ==
    /\ stage = "end"
    /\ IF req.defer THEN future.state = "resolved"
       ELSE outcome.kind = "returned"

YieldedValue == IF req.defer THEN future.value ELSE outcome.value

\* C22: an ExecuteTrajectory call with a numeric timeout that ends after
\* the timeout has elapsed yields None, and one with timeout = None ends
\* only when all the controllers are done.
C22_TimeoutYieldsNone ==
    (req.entry = "ExecuteTrajectory" /\ Yielded)
        => /\ (req.timeout # None /\ time_now > req.timeout)
                => YieldedValue = "None"
           /\ req.timeout = None => controllers_done

\* the value that the call gives for an option of PostProcessPath: the
\* caller's argument, or the path's tag when the caller passes none
Chosen(key, argument, tag) == IF key \in req.keys THEN argument ELSE tag

\* a pipeline of PostProcessPath has run to its end
PipelineDone ==
    /\ Happened("PostProcessPath")
    /\ \/ stage = "postprocessed"
       \/ Happened("ExecuteTrajectory")
       \/ Yielded /\ req.entry = "PostProcessPath"

\* C23: PostProcessPath treats the path as constrained when the caller
\* passes constrained=True, or passes nothing and the path's tag is set:
\* such a path is only retimed, never shortcut or smoothed; any other path
\* is shortcut and then smoothed, never given to the retimer.  A smooth
\* value is likewise the argument before the tag.
C23_PipelineFromTags ==
    LET constrained ==
            Chosen("constrained", req.constrained, req.tag_constrained)
        smooth == Chosen("smooth", req.smooth, req.tag_smooth)
    IN  /\ constrained
            => /\ ~Happened("ShortcutPath")
               /\ ~Happened("smoother.RetimeTrajectory")
               /\ PipelineDone => Happened("retimer.RetimeTrajectory")
        /\ ~constrained
            => /\ ~Happened("retimer.RetimeTrajectory")
               /\ Happened("smoother.RetimeTrajectory")
                    => Precedes("ShortcutPath", "smoother.RetimeTrajectory")
               /\ PipelineDone => Happened("smoother.RetimeTrajectory")
        /\ (Happened("retimer.RetimeTrajectory") \/ Happened("ShortcutPath"))
            => (smooth <=> Happened("warning: smooth paths not supported"))

\* an argument constrained=False overrides the tag of a constrained path,
\* which is shortcut and smoothed
C23_Witness ==
    /\ req.entry = "PostProcessPath" /\ Yielded
    /\ "constrained" \in req.keys /\ ~req.constrained /\ req.tag_constrained
    /\ "smooth" \in req.keys /\ ~req.smooth /\ req.tag_smooth
    /\ Precedes("ShortcutPath", "smoother.RetimeTrajectory")

-----------------------------------------------------------------------------
(* The order and the bookkeeping of the checks *)

\* C26: the wall clock is tested before anything else on a sample: when
\* the time limit has been reached at a sample, the time-limit Fault is
\* recorded, whatever limits the sample violates and whatever it collides
\* with; no collision check runs, the configuration is not committed and
\* the predicate is not called.
C26_WallClockFirst ==
    (mon.t # None /\ clock >= timelimit)
        => /\ mon.exception = TimeLimitError
           /\ nonlocals.exception = TimeLimitError
           /\ ~mon.committed /\ ~mon.env_checked /\ ~mon.self_checked
           /\ ~mon.pred_called /\ mon.status = "none"

\* the time limit is reached on a sample that is outside the limits and
\* in collision
C26_Witness ==
    /\ mon.t # None /\ clock >= timelimit
    /\ nonlocals.exception = TimeLimitError
    /\ \E i \in DOFs : mon.q[i] < q_limit_min[i] \/ mon.q[i] > q_limit_max[i]
    /\ mon.q \in call.env_obstacles

\* C27: over a call, the times of the samples given to the monitor are
\* strictly increasing: each evaluation is on a later sample than the one
\* before it, so that no sample is checked twice.
C27_SampleTimesIncrease == [][FnStatusCallback => mon'.t > mon.t]_vars

\* C28: fn_callback appends the accepted step to the raw path first and
\* checks its samples afterwards.  While the samples are being checked the
\* path already ends with the step's waypoint, and the samples to check
\* end at that waypoint; the solver takes its next step only after every
\* sample up to the end of the path has passed; after a Fault the
\* waypoint of the step that failed is still the last one of the raw path.
C28_AppendedThenChecked ==
    /\ pc = "check"
        => /\ path # <<>> /\ checks # <<>>
           /\ checks[Len(checks)].t = GetDuration(path)
           /\ checks[Len(checks)].q = path[Len(path)].q
    /\ (pc = "solve" /\ path # <<>>)
        => /\ nonlocals.exception = NoException
           /\ nonlocals.t_check = GetDuration(path)
           /\ mon.t = GetDuration(path) /\ mon.exception = NoException
    /\ nonlocals.exception.type \in FaultTypes
        => /\ pc \in {"post", "done"}
           /\ mon.exception = nonlocals.exception
           /\ mon.t <= GetDuration(path)

\* a Fault on the last sample of a later step, whose waypoint is on the path
C28_Witness ==
    /\ pc = "post"
    /\ nonlocals.exception.type \in FaultTypes
    /\ Len(path) >= 2
    /\ mon.t = GetDuration(path)

\* C28 as stated: the raw path never holds a waypoint whose step is still
\* being checked or has recorded a Fault.
C28_Original ==
    path # <<>>
        => /\ pc # "check"
           /\ nonlocals.exception.type \notin FaultTypes

\* C29: once an evaluation of the monitor has raised a Fault or the
\* terminate signal, the integration is over: the exception is the pending
\* one, and from then on no sample is given to the monitor, no waypoint is
\* appended, and t_cache and the pending exception keep their values.
C29_StopsAtOnce ==
    [][mon.exception # NoException
        => /\ nonlocals.exception = mon.exception
           /\ pc \in {"post", "done"} /\ pc' \in {"post", "done"}
           /\ checks = <<>> /\ checks' = <<>>
           /\ mon' = mon /\ path' = path /\ nonlocals' = nonlocals]_vars

\* a call has ended after a Fault on a sample before the end of its step,
\* with a cached time
C29_Witness ==
    /\ pc = "done"
    /\ nonlocals.exception.type \in FaultTypes
    /\ nonlocals.t_cache # None
    /\ mon.t < GetDuration(path)

\* C30: t_cache is unset at first, and whenever it gets a value, the value
\* is the time of the sample just evaluated, an evaluation in which the
\* time limit had not been reached, the sample was within the position
\* limits and free of environment and self collision, and the predicate
\* returned CACHE_AND_CONTINUE or CACHE_AND_TERMINATE; an evaluation that
\* records a Fault leaves t_cache as it was.
C30_CacheOnlyCheckedSamples ==
    [][/\ nonlocals'.t_cache # nonlocals.t_cache
            => /\ nonlocals'.t_cache = mon'.t
               /\ clock' < timelimit
               /\ ~ViolatesPositionLimit(mon'.q)
               /\ mon'.committed /\ mon'.env_checked /\ mon'.self_checked
               /\ mon'.q \notin call.env_obstacles
               /\ mon'.q \notin call.self_obstacles
               /\ mon'.pred_called
               /\ mon'.status \in {CACHE_AND_CONTINUE, CACHE_AND_TERMINATE}
               /\ mon'.exception.type \notin FaultTypes
       /\ (pc = "check" /\ mon'.exception.type \in FaultTypes)
            => nonlocals'.t_cache = nonlocals.t_cache]_vars

\* a Fault has been recorded on a sample after another sample was cached
C30_Witness ==
    /\ mon.exception.type \in FaultTypes
    /\ nonlocals.exception = mon.exception
    /\ nonlocals.t_cache # None
    /\ nonlocals.t_cache # mon.t

\* C31: a call that ends with t_cache = 0, the time of the very first
\* sample, returns a trajectory of exactly one waypoint, the start
\* configuration.
C31_CacheAtStartGivesOneWaypoint ==
    (pc = "done" /\ nonlocals.t_cache = 0)
        => /\ result.kind = "returned"
           /\ result.traj = <<call.q_start>>

\* C32: in a call of PlanToEndEffectorPose or PlanToEndEffectorOffset, an
\* evaluation of the monitor records the time-limit Fault exactly when the
\* wall-clock time elapsed has reached the caller's timelimit argument.
C32_CallerTimeLimitIsWallClock ==
    (call.method \in {"PlanToEndEffectorPose", "PlanToEndEffectorOffset"}
        /\ mon.t # None)
        => (mon.exception = TimeLimitError <=> clock >= call.timelimit)

-----------------------------------------------------------------------------
(* Execution after planning *)

\* the failure that reached the caller: the exception of the future in
\* deferred mode, the exception raised by the call otherwise
FailureOfCall ==
    IF req.defer THEN (IF future.state = "failed" THEN future.error
                       ELSE NoException)
    ELSE IF outcome.kind = "raised" THEN outcome.error ELSE NoException

-----------------------------------------------------------------------------
(* Properties of the SnapPlanner *)

\* C24: PlanToConfiguration raises PlanningError whenever some joint of the
\* goal differs from the current configuration by more than snap_tolerance,
\* whether the goal is above or below the current value.
C24_FarGoalRejected ==
    (/\ snap_call.method = "PlanToConfiguration"
     /\ snap_pc = "end"
     /\ \E i \in DOFs :
           Abs(snap_call.goal[i] - snap_call.current_dof_values[i])
                > snap_call.snap_tolerance)
        => /\ snap_result.kind = "raised"
           /\ snap_result.error = PlanningError

\* C25: a trajectory returned by the SnapPlanner has two waypoints, the
\* current configuration and then the goal configuration.
C25_TwoWaypointsToGoal ==
    (snap_pc = "end" /\ snap_result.kind = "returned")
        => snap_result.traj = <<snap_call.current_dof_values, snap_goal>>

-----------------------------------------------------------------------------
(* Properties of ViolatesVelocityLimits *)

\* some waypoint stores a joint velocity whose magnitude is above the limit
StoredVelocityAboveLimit(traj) ==
    \E i \in 1..Len(traj), j \in DOFs :
        Abs(traj[i].velocities[j]) > velocity_limits[j]

\* between two consecutive waypoints some joint moves by more than its
\* limit times the delta time of the later waypoint
DifferenceAboveLimit(traj) ==
    \E i \in 2..Len(traj), j \in DOFs :
        Abs(traj[i].values[j] - traj[i - 1].values[j])
            > velocity_limits[j] * traj[i].dt

\* C34: ViolatesVelocityLimits returns True exactly when a stored joint
\* velocity exceeds its limit in magnitude, or the position difference of
\* two consecutive waypoints divided by the later waypoint's delta time
\* does; otherwise it returns False.
C34_TrueExactlyOnViolation ==
    limits_result # "none"
        => (limits_result = "True"
                <=> \/ /\ limits_call.has_velocity_group
                       /\ StoredVelocityAboveLimit(limits_call.traj)
                    \/ DifferenceAboveLimit(limits_call.traj))

====
